---- MODULE Spec2Model ----
(***************************************************************************)
(* Counted Body and Detached Counted Body idioms                           *)
(* (PatternsAndIdioms/CountedBody/CountedBody.cpp and                      *)
(*  PatternsAndIdioms/DetachedCountedBody/DetachedCountedBody.cpp).        *)
(*                                                                         *)
(* A Representation (the handle) holds raw pointers to heap objects and    *)
(* manages their lifetime through a reference count.  The heap is modelled *)
(* explicitly.  A pointer is an address plus a flag, dangling, that is set *)
(* in every copy of the pointer when the object it points to is deleted    *)
(* (the pointer value has become invalid); the allocator may hand a freed  *)
(* address out again.  An access through a dangling pointer is undefined   *)
(* behaviour: when the address is free the value read is indeterminate     *)
(* (either outcome of the comparison with zero), when the address has been *)
(* handed out again the access hits the object that now lives there; a     *)
(* delete of a freed address either aborts the program or goes unnoticed.  *)
(* An ownership group is an allocated heap object together with the        *)
(* Representations whose pointers to it are not dangling.                  *)
(***************************************************************************)
EXTENDS Integers, FiniteSets, Sequences, TLC

\* ---- bounds ----
NumHandles == 3      \* Representation objects the client can hold at once
NumAddr    == 2      \* heap addresses per kind of heap object

Handles == 1..NumHandles
Addr    == 1..NumAddr

\* a pointer value: the address held, and whether the object it was
\* obtained from has been deleted since
NullPtr == [addr |-> 0, dangling |-> FALSE]
Ptr(a) == [addr |-> a, dangling |-> FALSE]

VARIABLES
  variant,       \* which of the two programs runs: "CB", "DCB", or "both" side by side
  cbRep,         \* CountedBody: the Representation objects
  cbHeap,        \* CountedBody: the Implementation objects on the heap
  cbAborted,     \* CountedBody: the allocator has aborted the program
  cbLast,        \* CountedBody: the last completed operation and what it did
  dcbRep,        \* DetachedCountedBody: the Representation objects
  dcbImpl,       \* DetachedCountedBody: the LibraryObject objects on the heap
  dcbCount,      \* DetachedCountedBody: the int64_t counters on the heap
  dcbAborted,    \* DetachedCountedBody: the allocator has aborted the program
  dcbLast,       \* DetachedCountedBody: the last completed operation
  script,        \* the client program that runs; "none": any sequence of operations
  pc,            \* the number of statements of the client program executed
  thr,           \* per thread: the member function it runs and where it stands
  lost           \* a thread has stored a count computed from an outdated read

cbVars == <<cbRep, cbHeap, cbAborted, cbLast>>
dcbVars == <<dcbRep, dcbImpl, dcbCount, dcbAborted, dcbLast>>
clientVars == <<script, pc>>
threadVars == <<thr, lost>>
vars == <<variant, cbRep, cbHeap, cbAborted, cbLast,
          dcbRep, dcbImpl, dcbCount, dcbAborted, dcbLast, script, pc, thr, lost>>

\* the threads of the concurrent client; the other clients are single-threaded
Threads == {1, 2}
ThreadIdle == [op |-> "none", h |-> 0, o |-> 0, step |-> "idle", reg |-> 0]
NoThreads ==
  /\ thr = [t \in Threads |-> ThreadIdle]
  /\ lost = FALSE

\* The last operation (op) and what it did: uaf, it accessed an object through a dangling (or
\* null) pointer; rcWrites, how many times it wrote a reference count;
\* deleted, it deleted an allocated payload object; deletedCount, it deleted
\* an allocated counter (the embedded counter goes with its payload);
\* dbl, it deleted a freed address.
StartOp(name) ==
  [op |-> name, uaf |-> FALSE, rcWrites |-> 0,
   deleted |-> FALSE, deletedCount |-> FALSE, dbl |-> FALSE]

(***************************************************************************)
(* CountedBody.cpp                                                         *)
(***************************************************************************)

\* a heap address that holds no Implementation
CB_FreeCell == [alloc |-> FALSE, reference_count |-> 0]

\* a Representation that does not exist (not constructed, or destroyed)
CB_NoRep == [live |-> FALSE, implementation |-> NullPtr]

\* the state the member functions work on
CB_State == [rep |-> cbRep, heap |-> cbHeap, aborted |-> cbAborted, last |-> cbLast]

\* faulty variant: the constructor starts the count at 1 and the Representation
\* increments it once more
CB_Implementation_CountOne == [alloc |-> TRUE, reference_count |-> 1]

\* Implementation::Implementation : reference_count (0)
CB_Implementation == [alloc |-> TRUE, reference_count |-> 0]

\* every pointer to the object at a becomes dangling when it is deleted
CB_Zap(rep, a) ==
  [k \in Handles |->
     IF rep[k].implementation.addr = a
     THEN [rep[k] EXCEPT !.implementation.dangling = TRUE]
     ELSE rep[k]]

\* Representation::IncrementReferenceCount
CB_IncrementReferenceCount(s, h) ==
  LET p == s.rep[h].implementation
  IN  IF s.heap[p.addr].alloc
      THEN [s EXCEPT !.heap[p.addr].reference_count = @ + 1,
                     !.last.uaf = @ \/ p.dangling,
                     !.last.rcWrites = @ + 1]
      ELSE [s EXCEPT !.last.uaf = TRUE,
                     !.last.rcWrites = @ + 1]

\* delete this->implementation; this->implementation == nullptr;
\* the second statement is a comparison: the member keeps the address
CB_Delete(s, h, abort) ==
  LET p == s.rep[h].implementation
  IN  IF s.heap[p.addr].alloc
      THEN [s EXCEPT !.heap[p.addr] = CB_FreeCell,
                     !.rep = CB_Zap(s.rep, p.addr),
                     !.last.deleted = TRUE,
                     !.last.deletedCount = TRUE,
                     !.last.uaf = @ \/ p.dangling]
      ELSE [s EXCEPT !.last.dbl = TRUE,
                     !.last.uaf = TRUE,
                     !.aborted = abort]

\* faulty variant: DecrementReferenceCount lowers the count and never deletes
CB_DecrementReferenceCount_NoDelete(s, h, positive, abort) ==
  LET p == s.rep[h].implementation
  IN  IF s.heap[p.addr].alloc
      THEN [s EXCEPT !.heap[p.addr].reference_count = @ - 1,
                     !.last.uaf = @ \/ p.dangling,
                     !.last.rcWrites = @ + 1]
      ELSE [s EXCEPT !.last.uaf = TRUE,
                     !.last.rcWrites = @ + 1]

\* Representation::DecrementReferenceCount
\* positive: the outcome of (reference_count > 0) when the count is read
\* from freed memory; abort: the allocator detects the delete of a freed
\* address and aborts
CB_DecrementReferenceCount(s, h, positive, abort) ==
  LET p == s.rep[h].implementation
  IN  IF s.heap[p.addr].alloc
      THEN LET s1 == [s EXCEPT !.heap[p.addr].reference_count = @ - 1,
                               !.last.uaf = @ \/ p.dangling,
                               !.last.rcWrites = @ + 1]
           IN  IF s1.heap[p.addr].reference_count > 0
               THEN s1
               ELSE CB_Delete(s1, h, abort)
      ELSE LET s1 == [s EXCEPT !.last.uaf = TRUE,
                               !.last.rcWrites = @ + 1]
           IN  IF positive THEN s1 ELSE CB_Delete(s1, h, abort)

\* Representation::Representation (void), the Implementation placed at a
CB_ConstructResult(s, h, a) ==
  LET s1 == [s EXCEPT !.heap[a] = CB_Implementation,
                      !.rep[h] = [live |-> TRUE, implementation |-> Ptr(a)],
                      !.last = StartOp("construct")]
  IN  CB_IncrementReferenceCount(s1, h)

\* Representation::Representation (const Representation&)
CB_CopyResult(s, h, o) ==
  LET s1 == [s EXCEPT !.rep[h] = [live |-> TRUE,
                                  implementation |-> s.rep[o].implementation],
                      !.last = StartOp("copy")]
  IN  CB_IncrementReferenceCount(s1, h)

\* faulty variant: the destructor does not give up its share of the group
CB_DestroyResult_NoDecrement(s, h, positive, abort) ==
  [s EXCEPT !.last = StartOp("destroy"), !.rep[h] = CB_NoRep]

\* Representation::~Representation
CB_DestroyResult(s, h, positive, abort) ==
  LET s1 == CB_DecrementReferenceCount([s EXCEPT !.last = StartOp("destroy")],
                                       h, positive, abort)
  IN  IF s1.aborted THEN s1 ELSE [s1 EXCEPT !.rep[h] = CB_NoRep]

\* faulty variant: operator= increments before it re-aliases, so the increment
\* lands on the group that was left
CB_AssignResult_IncrementFirst(s, h, o, positive, abort) ==
  LET s1 == CB_DecrementReferenceCount([s EXCEPT !.last = StartOp("assign")],
                                       h, positive, abort)
      s2 == CB_IncrementReferenceCount(s1, h)
  IN  IF s1.aborted THEN s1
      ELSE [s2 EXCEPT !.rep[h].implementation = s2.rep[o].implementation]

\* Representation::operator=
CB_AssignResult(s, h, o, positive, abort) ==
  LET s1 == CB_DecrementReferenceCount([s EXCEPT !.last = StartOp("assign")],
                                       h, positive, abort)
      s2 == [s1 EXCEPT !.rep[h].implementation = s1.rep[o].implementation]
  IN  IF s1.aborted THEN s1 ELSE CB_IncrementReferenceCount(s2, h)

\* Representation::ExecuteBehaviour
CB_ExecuteResult(s, h) ==
  [s EXCEPT !.last = [StartOp("invoke") EXCEPT
                        !.uaf = s.rep[h].implementation.dangling]]

\* the outcomes of the undefined reads and deletes an operation on h can meet
CB_Outcomes(h) ==
  IF cbHeap[cbRep[h].implementation.addr].alloc THEN {FALSE} ELSE BOOLEAN

\* the state an operation returns becomes the program state; an aborted
\* program has no objects any more
CB_Commit(s) ==
  /\ cbRep' = IF s.aborted THEN [h \in Handles |-> CB_NoRep] ELSE s.rep
  /\ cbHeap' = IF s.aborted THEN [a \in Addr |-> CB_FreeCell] ELSE s.heap
  /\ cbAborted' = s.aborted
  /\ cbLast' = s.last

CB_Construct(h, a) ==
  /\ ~cbAborted
  /\ ~cbRep[h].live
  /\ ~cbHeap[a].alloc
  /\ CB_Commit(CB_ConstructResult(CB_State, h, a))

CB_Copy(h, o) ==
  /\ ~cbAborted
  /\ ~cbRep[h].live /\ cbRep[o].live
  /\ CB_Commit(CB_CopyResult(CB_State, h, o))

CB_Destroy(h) ==
  /\ ~cbAborted
  /\ cbRep[h].live
  /\ \E positive, abort \in CB_Outcomes(h) :
        CB_Commit(CB_DestroyResult(CB_State, h, positive, abort))

CB_Assign(h, o) ==
  /\ ~cbAborted
  /\ cbRep[h].live /\ cbRep[o].live
  /\ \E positive, abort \in CB_Outcomes(h) :
        CB_Commit(CB_AssignResult(CB_State, h, o, positive, abort))

CB_ExecuteBehaviour(h) ==
  /\ ~cbAborted
  /\ cbRep[h].live
  /\ CB_Commit(CB_ExecuteResult(CB_State, h))

CB_Init ==
  /\ cbRep = [h \in Handles |-> CB_NoRep]
  /\ cbHeap = [a \in Addr |-> CB_FreeCell]
  /\ cbAborted = FALSE
  /\ cbLast = StartOp("none")

(***************************************************************************)
(* DetachedCountedBody.cpp                                                 *)
(***************************************************************************)

\* a heap address that holds no counter
DCB_FreeCount == [alloc |-> FALSE, value |-> 0]

\* a Representation that does not exist (not constructed, or destroyed)
DCB_NoRep == [live |-> FALSE, implementation |-> NullPtr, reference_count |-> NullPtr]

\* the state the member functions work on
DCB_State == [rep |-> dcbRep, impl |-> dcbImpl, count |-> dcbCount,
              aborted |-> dcbAborted, last |-> dcbLast]

\* every pointer to the LibraryObject at a becomes dangling when it is deleted
DCB_ZapImpl(rep, a) ==
  [k \in Handles |->
     IF rep[k].implementation.addr = a
     THEN [rep[k] EXCEPT !.implementation.dangling = TRUE]
     ELSE rep[k]]

\* every pointer to the counter at a becomes dangling when it is deleted
DCB_ZapCount(rep, a) ==
  [k \in Handles |->
     IF rep[k].reference_count.addr = a
     THEN [rep[k] EXCEPT !.reference_count.dangling = TRUE]
     ELSE rep[k]]

\* Representation::IncrementReferenceCount
DCB_IncrementReferenceCount(s, h) ==
  LET q == s.rep[h].reference_count
  IN  IF s.count[q.addr].alloc
      THEN [s EXCEPT !.count[q.addr].value = @ + 1,
                     !.last.uaf = @ \/ q.dangling,
                     !.last.rcWrites = @ + 1]
      ELSE [s EXCEPT !.last.uaf = TRUE,
                     !.last.rcWrites = @ + 1]

\* delete this->implementation; this->implementation = nullptr;
DCB_DeleteImplementation(s, h, abort) ==
  LET p == s.rep[h].implementation
      s1 == IF p.addr = 0
            THEN s
            ELSE IF s.impl[p.addr]
            THEN [s EXCEPT !.impl[p.addr] = FALSE,
                           !.rep = DCB_ZapImpl(s.rep, p.addr),
                           !.last.deleted = TRUE,
                           !.last.uaf = @ \/ p.dangling]
            ELSE [s EXCEPT !.last.dbl = TRUE,
                           !.last.uaf = TRUE,
                           !.aborted = abort]
  IN  IF s1.aborted THEN s1 ELSE [s1 EXCEPT !.rep[h].implementation = NullPtr]

\* faulty variant: the counter is not deleted with its LibraryObject
DCB_DeleteReferenceCount_Skipped(s, h, abort) ==
  [s EXCEPT !.rep[h].implementation = NullPtr]

\* delete this->reference_count; this->implementation = nullptr;
\* the member reference_count keeps the freed address
DCB_DeleteReferenceCount(s, h, abort) ==
  LET q == s.rep[h].reference_count
      s1 == IF s.count[q.addr].alloc
            THEN [s EXCEPT !.count[q.addr] = DCB_FreeCount,
                           !.rep = DCB_ZapCount(s.rep, q.addr),
                           !.last.deletedCount = TRUE,
                           !.last.uaf = @ \/ q.dangling]
            ELSE [s EXCEPT !.last.dbl = TRUE,
                           !.last.uaf = TRUE,
                           !.aborted = abort]
  IN  IF s1.aborted THEN s1 ELSE [s1 EXCEPT !.rep[h].implementation = NullPtr]

\* the two deletes of DecrementReferenceCount, in the order of the source
DCB_Delete(s, h, abortI, abortC) ==
  LET s1 == DCB_DeleteImplementation(s, h, abortI)
  IN  IF s1.aborted THEN s1 ELSE DCB_DeleteReferenceCount(s1, h, abortC)

\* faulty variant: the comparison is >= 0, the objects outlive their last owner
DCB_DecrementReferenceCount_DeleteLate(s, h, positive, abortI, abortC) ==
  LET q == s.rep[h].reference_count
  IN  IF s.count[q.addr].alloc
      THEN LET s1 == [s EXCEPT !.count[q.addr].value = @ - 1,
                               !.last.uaf = @ \/ q.dangling,
                               !.last.rcWrites = @ + 1]
           IN  IF s1.count[q.addr].value >= 0
               THEN s1
               ELSE DCB_Delete(s1, h, abortI, abortC)
      ELSE LET s1 == [s EXCEPT !.last.uaf = TRUE,
                               !.last.rcWrites = @ + 1]
           IN  IF positive THEN s1 ELSE DCB_Delete(s1, h, abortI, abortC)

\* Representation::DecrementReferenceCount
\* positive: the outcome of (*reference_count > 0) when the counter is read
\* from freed memory; abortI, abortC: the allocator detects the delete of a
\* freed LibraryObject / counter and aborts
DCB_DecrementReferenceCount(s, h, positive, abortI, abortC) ==
  LET q == s.rep[h].reference_count
  IN  IF s.count[q.addr].alloc
      THEN LET s1 == [s EXCEPT !.count[q.addr].value = @ - 1,
                               !.last.uaf = @ \/ q.dangling,
                               !.last.rcWrites = @ + 1]
           IN  IF s1.count[q.addr].value > 0
               THEN s1
               ELSE DCB_Delete(s1, h, abortI, abortC)
      ELSE LET s1 == [s EXCEPT !.last.uaf = TRUE,
                               !.last.rcWrites = @ + 1]
           IN  IF positive THEN s1 ELSE DCB_Delete(s1, h, abortI, abortC)

\* faulty variant: the counter starts at 0, as the embedded one does, but no
\* increment follows
DCB_ConstructResult_CountZero(s, h, a, c) ==
  [s EXCEPT !.impl[a] = TRUE,
            !.count[c] = [alloc |-> TRUE, value |-> 0],
            !.rep[h] = [live |-> TRUE, implementation |-> Ptr(a),
                        reference_count |-> Ptr(c)],
            !.last = StartOp("construct")]

\* Representation::Representation (void): the LibraryObject placed at a, the
\* counter, initialised to 1, at c
DCB_ConstructResult(s, h, a, c) ==
  [s EXCEPT !.impl[a] = TRUE,
            !.count[c] = [alloc |-> TRUE, value |-> 1],
            !.rep[h] = [live |-> TRUE, implementation |-> Ptr(a),
                        reference_count |-> Ptr(c)],
            !.last = StartOp("construct")]

\* faulty variant: the copy constructor aliases both pointers but forgets the
\* increment
DCB_CopyResult_NoIncrement(s, h, o) ==
  [s EXCEPT !.rep[h] = [live |-> TRUE,
                        implementation |-> s.rep[o].implementation,
                        reference_count |-> s.rep[o].reference_count],
            !.last = StartOp("copy")]

\* Representation::Representation (const Representation&)
DCB_CopyResult(s, h, o) ==
  LET s1 == [s EXCEPT !.rep[h] = [live |-> TRUE,
                                  implementation |-> s.rep[o].implementation,
                                  reference_count |-> s.rep[o].reference_count],
                      !.last = StartOp("copy")]
  IN  DCB_IncrementReferenceCount(s1, h)

\* Representation::~Representation
DCB_DestroyResult(s, h, positive, abortI, abortC) ==
  LET s1 == DCB_DecrementReferenceCount([s EXCEPT !.last = StartOp("destroy")],
                                        h, positive, abortI, abortC)
  IN  IF s1.aborted THEN s1 ELSE [s1 EXCEPT !.rep[h] = DCB_NoRep]

\* faulty variant: operator= exchanges the pointers of the two Representations
\* instead of copying them, so the source is changed too
DCB_AssignResult_Swap(s, h, o, positive, abortI, abortC) ==
  LET s1 == DCB_DecrementReferenceCount([s EXCEPT !.last = StartOp("assign")],
                                        h, positive, abortI, abortC)
      s2 == [s1 EXCEPT !.rep[h].implementation = s1.rep[o].implementation,
                       !.rep[h].reference_count = s1.rep[o].reference_count,
                       !.rep[o].implementation = s1.rep[h].implementation,
                       !.rep[o].reference_count = s1.rep[h].reference_count]
  IN  IF s1.aborted THEN s1 ELSE DCB_IncrementReferenceCount(s2, h)

\* Representation::operator=
DCB_AssignResult(s, h, o, positive, abortI, abortC) ==
  LET s1 == DCB_DecrementReferenceCount([s EXCEPT !.last = StartOp("assign")],
                                        h, positive, abortI, abortC)
      s2 == [s1 EXCEPT !.rep[h].implementation = s1.rep[o].implementation]
      s3 == [s2 EXCEPT !.rep[h].reference_count = s2.rep[o].reference_count]
  IN  IF s1.aborted THEN s1 ELSE DCB_IncrementReferenceCount(s3, h)

\* faulty variant: ExecuteBehaviour takes a share of the group for the call and
\* never gives it back
DCB_ExecuteResult_TakesShare(s, h) ==
  LET p == s.rep[h].implementation
      s1 == [s EXCEPT !.last = [StartOp("invoke") EXCEPT
                                  !.uaf = p.dangling \/ p.addr = 0]]
  IN  DCB_IncrementReferenceCount(s1, h)

\* Representation::ExecuteBehaviour
DCB_ExecuteResult(s, h) ==
  LET p == s.rep[h].implementation
  IN  [s EXCEPT !.last = [StartOp("invoke") EXCEPT
                            !.uaf = p.dangling \/ p.addr = 0]]

\* the outcomes of reading a freed counter in an operation on h
DCB_ReadOutcomes(h) ==
  IF dcbCount[dcbRep[h].reference_count.addr].alloc THEN {FALSE} ELSE BOOLEAN

\* the outcomes of deleting the LibraryObject in an operation on h
DCB_ImplOutcomes(h) ==
  LET p == dcbRep[h].implementation
  IN  IF p.addr = 0 \/ dcbImpl[p.addr] THEN {FALSE} ELSE BOOLEAN

\* the state an operation returns becomes the program state; an aborted
\* program has no objects any more
DCB_Commit(s) ==
  /\ dcbRep' = IF s.aborted THEN [h \in Handles |-> DCB_NoRep] ELSE s.rep
  /\ dcbImpl' = IF s.aborted THEN [a \in Addr |-> FALSE] ELSE s.impl
  /\ dcbCount' = IF s.aborted THEN [a \in Addr |-> DCB_FreeCount] ELSE s.count
  /\ dcbAborted' = s.aborted
  /\ dcbLast' = s.last

DCB_Construct(h, a, c) ==
  /\ ~dcbAborted
  /\ ~dcbRep[h].live
  /\ ~dcbImpl[a]
  /\ ~dcbCount[c].alloc
  /\ DCB_Commit(DCB_ConstructResult(DCB_State, h, a, c))

DCB_Copy(h, o) ==
  /\ ~dcbAborted
  /\ ~dcbRep[h].live /\ dcbRep[o].live
  /\ DCB_Commit(DCB_CopyResult(DCB_State, h, o))

DCB_Destroy(h) ==
  /\ ~dcbAborted
  /\ dcbRep[h].live
  /\ \E positive, abortC \in DCB_ReadOutcomes(h), abortI \in DCB_ImplOutcomes(h) :
        DCB_Commit(DCB_DestroyResult(DCB_State, h, positive, abortI, abortC))

DCB_Assign(h, o) ==
  /\ ~dcbAborted
  /\ dcbRep[h].live /\ dcbRep[o].live
  /\ \E positive, abortC \in DCB_ReadOutcomes(h), abortI \in DCB_ImplOutcomes(h) :
        DCB_Commit(DCB_AssignResult(DCB_State, h, o, positive, abortI, abortC))

DCB_ExecuteBehaviour(h) ==
  /\ ~dcbAborted
  /\ dcbRep[h].live
  /\ DCB_Commit(DCB_ExecuteResult(DCB_State, h))

DCB_Init ==
  /\ dcbRep = [h \in Handles |-> DCB_NoRep]
  /\ dcbImpl = [a \in Addr |-> FALSE]
  /\ dcbCount = [a \in Addr |-> DCB_FreeCount]
  /\ dcbAborted = FALSE
  /\ dcbLast = StartOp("none")

(***************************************************************************)
(* The client: one of the two programs, performing any sequence of         *)
(* operations on the Representation objects it holds.                      *)
(***************************************************************************)

Init ==
  /\ variant \in {"CB", "DCB"}
  /\ CB_Init
  /\ DCB_Init
  /\ script = "none"
  /\ pc = 0
  /\ NoThreads

NextCB ==
  /\ variant = "CB"
  /\ \/ \E h \in Handles, a \in Addr : CB_Construct(h, a)
     \/ \E h, o \in Handles : CB_Copy(h, o)
     \/ \E h \in Handles : CB_Destroy(h)
     \/ \E h, o \in Handles : CB_Assign(h, o)
     \/ \E h \in Handles : CB_ExecuteBehaviour(h)
  /\ UNCHANGED <<variant, dcbVars, clientVars, threadVars>>

NextDCB ==
  /\ variant = "DCB"
  /\ \/ \E h \in Handles, a, c \in Addr : DCB_Construct(h, a, c)
     \/ \E h, o \in Handles : DCB_Copy(h, o)
     \/ \E h \in Handles : DCB_Destroy(h)
     \/ \E h, o \in Handles : DCB_Assign(h, o)
     \/ \E h \in Handles : DCB_ExecuteBehaviour(h)
  /\ UNCHANGED <<variant, cbVars, clientVars, threadVars>>

Next == NextCB \/ NextDCB

Spec == Init /\ [][Next]_vars

(***************************************************************************)
(* Scripted clients: the statements of main and of the spec's scenarios B  *)
(* and C, executed in order.  Objects 1, 2, 3 are first, second and third  *)
(* of main (A, B, C of the scenarios); the objects of main are destroyed   *)
(* at return 0 in the reverse order of their construction.                 *)
(***************************************************************************)

Statement(op, h, o) == [op |-> op, h |-> h, o |-> o]

main ==
  << Statement("construct", 1, 1), Statement("invoke", 1, 1),
     Statement("copy", 2, 1),      Statement("invoke", 2, 2),
     Statement("construct", 3, 3), Statement("assign", 3, 2),
     Statement("invoke", 3, 3),
     Statement("destroy", 3, 3), Statement("destroy", 2, 2),
     Statement("destroy", 1, 1) >>

ScenarioB ==
  << Statement("construct", 1, 1), Statement("copy", 2, 1),
     Statement("construct", 3, 3), Statement("assign", 2, 3),
     Statement("destroy", 1, 1),
     Statement("invoke", 2, 2), Statement("invoke", 3, 3) >>

ScenarioC ==
  << Statement("construct", 1, 1), Statement("construct", 2, 2),
     Statement("assign", 1, 2),
     Statement("destroy", 2, 2), Statement("destroy", 1, 1) >>

Program ==
  CASE script = "main" -> main
    [] script = "ScenarioB" -> ScenarioB
    [] script = "ScenarioC" -> ScenarioC
    [] OTHER -> << >>

CB_Statement(st) ==
  \/ st.op = "construct" /\ \E a \in Addr : CB_Construct(st.h, a)
  \/ st.op = "copy" /\ CB_Copy(st.h, st.o)
  \/ st.op = "assign" /\ CB_Assign(st.h, st.o)
  \/ st.op = "destroy" /\ CB_Destroy(st.h)
  \/ st.op = "invoke" /\ CB_ExecuteBehaviour(st.h)

DCB_Statement(st) ==
  \/ st.op = "construct" /\ \E a, c \in Addr : DCB_Construct(st.h, a, c)
  \/ st.op = "copy" /\ DCB_Copy(st.h, st.o)
  \/ st.op = "assign" /\ DCB_Assign(st.h, st.o)
  \/ st.op = "destroy" /\ DCB_Destroy(st.h)
  \/ st.op = "invoke" /\ DCB_ExecuteBehaviour(st.h)

RunCB ==
  /\ variant = "CB"
  /\ pc < Len(Program)
  /\ CB_Statement(Program[pc + 1])
  /\ pc' = pc + 1
  /\ UNCHANGED <<variant, script, dcbVars, threadVars>>

RunDCB ==
  /\ variant = "DCB"
  /\ pc < Len(Program)
  /\ DCB_Statement(Program[pc + 1])
  /\ pc' = pc + 1
  /\ UNCHANGED <<variant, script, cbVars, threadVars>>

InitScripted ==
  /\ variant \in {"CB", "DCB"}
  /\ CB_Init
  /\ DCB_Init
  /\ script \in {"main", "ScenarioB", "ScenarioC"}
  /\ pc = 0
  /\ NoThreads

NextScripted == RunCB \/ RunDCB

SpecScripted == InitScripted /\ [][NextScripted]_vars

(***************************************************************************)
(* The two programs side by side: the client performs the same operation   *)
(* on the same object of both, each allocator placing objects as it likes. *)
(* Assignments are between objects of different groups.                    *)
(***************************************************************************)

InitPair ==
  /\ variant = "both"
  /\ CB_Init
  /\ DCB_Init
  /\ script = "none"
  /\ pc = 0
  /\ NoThreads

PairConstruct(h) ==
  \E a, b, c \in Addr : CB_Construct(h, a) /\ DCB_Construct(h, b, c)

PairCopy(h, o) == CB_Copy(h, o) /\ DCB_Copy(h, o)

PairAssign(h, o) ==
  /\ cbRep[h].live /\ cbRep[o].live
  /\ cbRep[h].implementation.addr # cbRep[o].implementation.addr
  /\ CB_Assign(h, o)
  /\ DCB_Assign(h, o)

PairDestroy(h) == CB_Destroy(h) /\ DCB_Destroy(h)

NextPair ==
  /\ variant = "both"
  /\ \/ \E h \in Handles : PairConstruct(h)
     \/ \E h, o \in Handles : PairCopy(h, o)
     \/ \E h, o \in Handles : PairAssign(h, o)
     \/ \E h \in Handles : PairDestroy(h)
  /\ UNCHANGED <<variant, clientVars, threadVars>>

SpecPair == InitPair /\ [][NextPair]_vars

(***************************************************************************)
(* A concurrent client.  Objects 1 and 2 share a group; thread t owns      *)
(* object t and runs one member function on it, without synchronisation:   *)
(* the destructor, operator= from the spare object when that is in another *)
(* group, or the copy constructor of the spare object when that does not   *)
(* exist yet.  ++count and --count are a load into a register and a store  *)
(* of the register; the comparison after the decrement is a further step   *)
(* that sees the counter in memory or the value in the register, as the    *)
(* compiler chose.  The flags of cbLast / dcbLast accumulate over the run. *)
(***************************************************************************)

Spare == NumHandles

\* the counter the operations on h work on
CountPointer(h) ==
  IF variant = "CB" THEN cbRep[h].implementation ELSE dcbRep[h].reference_count
CountAllocated(h) ==
  IF variant = "CB" THEN cbHeap[CountPointer(h).addr].alloc
                    ELSE dcbCount[CountPointer(h).addr].alloc
CountValue(h) ==
  IF variant = "CB" THEN cbHeap[CountPointer(h).addr].reference_count
                    ELSE dcbCount[CountPointer(h).addr].value
Exists(h) == IF variant = "CB" THEN cbRep[h].live ELSE dcbRep[h].live
Aborted == IF variant = "CB" THEN cbAborted ELSE dcbAborted

\* the store half of ++ and -- on the counter of h
CB_StoreCount(s, h, v) ==
  LET p == s.rep[h].implementation
  IN  IF s.heap[p.addr].alloc
      THEN [s EXCEPT !.heap[p.addr].reference_count = v,
                     !.last.uaf = @ \/ p.dangling]
      ELSE [s EXCEPT !.last.uaf = TRUE]

DCB_StoreCount(s, h, v) ==
  LET q == s.rep[h].reference_count
  IN  IF s.count[q.addr].alloc
      THEN [s EXCEPT !.count[q.addr].value = v,
                     !.last.uaf = @ \/ q.dangling]
      ELSE [s EXCEPT !.last.uaf = TRUE]

\* the load half, and the load of the comparison: memory is not changed
CB_LoadCount(s, h) ==
  LET p == s.rep[h].implementation
  IN  [s EXCEPT !.last.uaf = @ \/ p.dangling \/ ~s.heap[p.addr].alloc]

DCB_LoadCount(s, h) ==
  LET q == s.rep[h].reference_count
  IN  [s EXCEPT !.last.uaf = @ \/ q.dangling \/ ~s.count[q.addr].alloc]

\* a step of the program that runs; the other program does not exist
CommitCB(s) == CB_Commit(s) /\ UNCHANGED dcbVars
CommitDCB(s) == DCB_Commit(s) /\ UNCHANGED cbVars

\* faulty variant: the store is an atomic read-modify-write of the counter
StoredCount_Atomic(reg, cur, delta) == cur + delta

\* the value ++ or -- stores: the register, loaded earlier, plus or minus one
StoredCount(reg, cur, delta) == reg + delta

\* thread t enters a member function
T_Start(t) ==
  /\ thr[t].step = "idle"
  /\ ~Aborted
  /\ \/ /\ thr' = [thr EXCEPT ![t] = [op |-> "destroy", h |-> t, o |-> t,
                                       step |-> "dec_read", reg |-> 0]]
        /\ UNCHANGED <<cbVars, dcbVars>>
     \/ /\ Exists(Spare)
        /\ CountPointer(Spare).addr # CountPointer(t).addr
        /\ thr' = [thr EXCEPT ![t] = [op |-> "assign", h |-> t, o |-> Spare,
                                       step |-> "dec_read", reg |-> 0]]
        /\ UNCHANGED <<cbVars, dcbVars>>
     \/ /\ ~Exists(Spare)
        /\ thr' = [thr EXCEPT ![t] = [op |-> "copy", h |-> Spare, o |-> t,
                                       step |-> "inc_read", reg |-> 0]]
        /\ IF variant = "CB"
           THEN CommitCB([CB_State EXCEPT
                  !.rep[Spare] = [live |-> TRUE,
                                  implementation |-> cbRep[t].implementation]])
           ELSE CommitDCB([DCB_State EXCEPT
                  !.rep[Spare] = [live |-> TRUE,
                                  implementation |-> dcbRep[t].implementation,
                                  reference_count |-> dcbRep[t].reference_count]])
  /\ UNCHANGED <<variant, clientVars, lost>>

\* the load of ++count or --count
T_Read(t) ==
  LET h == thr[t].h
  IN  /\ thr[t].step \in {"dec_read", "inc_read"}
      /\ ~Aborted
      /\ \E v \in (IF CountAllocated(h) THEN {CountValue(h)} ELSE {1, 2}) :
            thr' = [thr EXCEPT ![t].reg = v,
                               ![t].step = IF thr[t].step = "dec_read"
                                           THEN "dec_write" ELSE "inc_write"]
      /\ IF variant = "CB" THEN CommitCB(CB_LoadCount(CB_State, h))
                           ELSE CommitDCB(DCB_LoadCount(DCB_State, h))
      /\ UNCHANGED <<variant, clientVars, lost>>

\* the store of ++count or --count
T_Write(t) ==
  LET h == thr[t].h
      delta == IF thr[t].step = "dec_write" THEN -1 ELSE 1
      cur == IF CountAllocated(h) THEN CountValue(h) ELSE thr[t].reg
      v == StoredCount(thr[t].reg, cur, delta)
  IN  /\ thr[t].step \in {"dec_write", "inc_write"}
      /\ ~Aborted
      /\ lost' = (lost \/ cur # thr[t].reg)
      /\ thr' = [thr EXCEPT ![t].reg = v,
                            ![t].step = IF thr[t].step = "dec_write"
                                        THEN "dec_test" ELSE "done"]
      /\ IF variant = "CB" THEN CommitCB(CB_StoreCount(CB_State, h, v))
                           ELSE CommitDCB(DCB_StoreCount(DCB_State, h, v))
      /\ UNCHANGED <<variant, clientVars>>

\* if (count > 0) return;
T_Test(t) ==
  LET h == thr[t].h
  IN  /\ thr[t].step = "dec_test"
      /\ ~Aborted
      /\ \E v \in (IF CountAllocated(h) THEN {CountValue(h), thr[t].reg}
                                          ELSE {0, 1}) :
            thr' = [thr EXCEPT ![t].step = IF v > 0 THEN "dec_done" ELSE "delete"]
      /\ IF variant = "CB" THEN CommitCB(CB_LoadCount(CB_State, h))
                           ELSE CommitDCB(DCB_LoadCount(DCB_State, h))
      /\ UNCHANGED <<variant, clientVars, lost>>

\* the deletes of DecrementReferenceCount; an abort ends every thread
T_Delete(t) ==
  LET h == thr[t].h
  IN  /\ thr[t].step = "delete"
      /\ ~Aborted
      /\ IF variant = "CB"
         THEN \E abort \in CB_Outcomes(h) :
                 CommitCB(CB_Delete(CB_State, h, abort))
         ELSE \E abortC \in DCB_ReadOutcomes(h), abortI \in DCB_ImplOutcomes(h) :
                 CommitDCB(DCB_Delete(DCB_State, h, abortI, abortC))
      /\ thr' = IF (IF variant = "CB" THEN cbAborted' ELSE dcbAborted')
                THEN [u \in Threads |-> [thr[u] EXCEPT !.step = "done"]]
                ELSE [thr EXCEPT ![t].step = "dec_done"]
      /\ UNCHANGED <<variant, clientVars, lost>>

\* DecrementReferenceCount has returned: the destructor ends, operator=
\* copies the pointers of the source and goes on to the increment
T_Return(t) ==
  LET h == thr[t].h
      o == thr[t].o
  IN  /\ thr[t].step = "dec_done"
      /\ ~Aborted
      /\ IF thr[t].op = "destroy"
         THEN /\ thr' = [thr EXCEPT ![t].step = "done"]
              /\ IF variant = "CB"
                 THEN CommitCB([CB_State EXCEPT !.rep[h] = CB_NoRep])
                 ELSE CommitDCB([DCB_State EXCEPT !.rep[h] = DCB_NoRep])
         ELSE /\ thr' = [thr EXCEPT ![t].step = "inc_read"]
              /\ IF variant = "CB"
                 THEN CommitCB([CB_State EXCEPT
                        !.rep[h].implementation = cbRep[o].implementation])
                 ELSE CommitDCB([DCB_State EXCEPT
                        !.rep[h].implementation = dcbRep[o].implementation,
                        !.rep[h].reference_count = dcbRep[o].reference_count])
      /\ UNCHANGED <<variant, clientVars, lost>>

\* objects 1 and 2 in one group (count 2); the spare object absent, or alone
\* in a second group
CB_InitShared(third) ==
  /\ cbRep = [h \in Handles |->
                IF h \in Threads THEN [live |-> TRUE, implementation |-> Ptr(1)]
                ELSE IF h = Spare /\ third
                     THEN [live |-> TRUE, implementation |-> Ptr(2)]
                     ELSE CB_NoRep]
  /\ cbHeap = [a \in Addr |->
                 IF a = 1 THEN [alloc |-> TRUE, reference_count |-> 2]
                 ELSE IF a = 2 /\ third
                      THEN [alloc |-> TRUE, reference_count |-> 1]
                      ELSE CB_FreeCell]
  /\ cbAborted = FALSE
  /\ cbLast = StartOp("none")

DCB_InitShared(third) ==
  /\ dcbRep = [h \in Handles |->
                 IF h \in Threads
                 THEN [live |-> TRUE, implementation |-> Ptr(1),
                       reference_count |-> Ptr(1)]
                 ELSE IF h = Spare /\ third
                      THEN [live |-> TRUE, implementation |-> Ptr(2),
                            reference_count |-> Ptr(2)]
                      ELSE DCB_NoRep]
  /\ dcbImpl = [a \in Addr |-> a = 1 \/ (a = 2 /\ third)]
  /\ dcbCount = [c \in Addr |->
                   IF c = 1 THEN [alloc |-> TRUE, value |-> 2]
                   ELSE IF c = 2 /\ third
                        THEN [alloc |-> TRUE, value |-> 1]
                        ELSE DCB_FreeCount]
  /\ dcbAborted = FALSE
  /\ dcbLast = StartOp("none")

InitRace ==
  /\ variant \in {"CB", "DCB"}
  /\ \E third \in BOOLEAN :
        IF variant = "CB" THEN CB_InitShared(third) /\ DCB_Init
                          ELSE DCB_InitShared(third) /\ CB_Init
  /\ script = "none"
  /\ pc = 0
  /\ NoThreads

NextRace ==
  \E t \in Threads :
     \/ T_Start(t)
     \/ T_Read(t)
     \/ T_Write(t)
     \/ T_Test(t)
     \/ T_Delete(t)
     \/ T_Return(t)

SpecRace == InitRace /\ [][NextRace]_vars

(***************************************************************************)
(* Vocabulary of the properties.  A Representation is in a group when it   *)
(* exists and its pointers refer to the objects they were obtained from.   *)
(***************************************************************************)

CB_Live == {h \in Handles : cbRep[h].live}
DCB_Live == {h \in Handles : dcbRep[h].live}

\* h references an allocated Implementation
CB_Valid(h) == cbRep[h].live /\ ~cbRep[h].implementation.dangling

\* h references an allocated LibraryObject and an allocated counter
DCB_Valid(h) ==
  /\ dcbRep[h].live
  /\ dcbRep[h].implementation.addr # 0
  /\ ~dcbRep[h].implementation.dangling
  /\ ~dcbRep[h].reference_count.dangling

\* the addresses h holds: its group
CB_Group(h) == cbRep[h].implementation.addr
DCB_Payload(h) == dcbRep[h].implementation.addr
DCB_Counter(h) == dcbRep[h].reference_count.addr

\* the ShareCount of the group of h
CB_ShareCount(h) == cbHeap[CB_Group(h)].reference_count
DCB_ShareCount(h) == dcbCount[DCB_Counter(h)].value

\* h and o are in the same group
CB_SameGroup(h, o) == CB_Group(h) = CB_Group(o)
DCB_SameGroup(h, o) == DCB_Payload(h) = DCB_Payload(o) /\ DCB_Counter(h) = DCB_Counter(o)

\* the same notions for the program that runs
Last == IF variant = "CB" THEN cbLast ELSE dcbLast
Live == IF variant = "CB" THEN CB_Live ELSE DCB_Live
Valid(h) == IF variant = "CB" THEN CB_Valid(h) ELSE DCB_Valid(h)
ShareCount(h) == IF variant = "CB" THEN CB_ShareCount(h) ELSE DCB_ShareCount(h)
SameGroup(h, o) == IF variant = "CB" THEN CB_SameGroup(h, o) ELSE DCB_SameGroup(h, o)

\* the number of payload objects and of counters on the heap (an embedded
\* counter is part of its payload)
Payloads ==
  IF variant = "CB" THEN Cardinality({a \in Addr : cbHeap[a].alloc})
                    ELSE Cardinality({a \in Addr : dcbImpl[a]})
Counters ==
  IF variant = "CB" THEN Cardinality({a \in Addr : cbHeap[a].alloc})
                    ELSE Cardinality({c \in Addr : dcbCount[c].alloc})

\* the last operation took a group, payload and counter, off the heap
Deallocated == Last.deleted /\ Last.deletedCount

(***************************************************************************)
(* C1: no operation ever reads, writes or invokes a Payload or ShareCount  *)
(* that has already been deallocated.                                      *)
(***************************************************************************)
C1_NoUseAfterFree == ~cbLast.uaf /\ ~dcbLast.uaf

(***************************************************************************)
(* C2: each Payload (and each detached ShareCount cell) is deallocated at  *)
(* most once, and a deallocation happens only in the step where the        *)
(* group's ShareCount goes from 1 to 0.                                    *)
(***************************************************************************)
C2_AtMostOnceDeallocation ==
  [][ /\ ~cbLast'.dbl
      /\ ~dcbLast'.dbl
      /\ \A a \in Addr : cbHeap[a].alloc /\ ~cbHeap'[a].alloc
                           => cbHeap[a].reference_count = 1
      /\ \A a \in Addr : dcbCount[a].alloc /\ ~dcbCount'[a].alloc
                           => dcbCount[a].value = 1
      /\ \A a \in Addr : dcbImpl[a] /\ ~dcbImpl'[a]
                           => \E c \in Addr : /\ dcbCount[c].alloc
                                              /\ ~dcbCount'[c].alloc
                                              /\ dcbCount[c].value = 1 ]_vars

(***************************************************************************)
(* C3: after every operation the ShareCount of every live group equals the *)
(* number of live handles whose payload reference points to that group,    *)
(* and every group a live handle references is live with a count >= 1.     *)
(***************************************************************************)
C3_CountConservation ==
  /\ \A a \in Addr :
        cbHeap[a].alloc =>
          cbHeap[a].reference_count = Cardinality({k \in CB_Live : CB_Group(k) = a})
  /\ \A h \in CB_Live :
        CB_Valid(h) /\ cbHeap[CB_Group(h)].alloc /\ CB_ShareCount(h) >= 1
  /\ \A h \in DCB_Live :
        /\ DCB_Valid(h)
        /\ dcbImpl[DCB_Payload(h)]
        /\ dcbCount[DCB_Counter(h)].alloc
        /\ DCB_ShareCount(h) >= 1
        /\ DCB_ShareCount(h) = Cardinality({k \in DCB_Live : DCB_Payload(k) = DCB_Payload(h)})

(***************************************************************************)
(* C4: for any live handle h in a group, also the sole owner, h = h leaves *)
(* the ShareCount as it was, does not deallocate the group and leaves h    *)
(* able to invoke the payload.                                             *)
(***************************************************************************)
C4_SelfAssignmentSafe ==
  [][ /\ \A h \in Handles :
           CB_Valid(h) /\ CB_Assign(h, h)
             => /\ CB_Valid(h)'
                /\ cbHeap'[CB_Group(h)].alloc
                /\ CB_ShareCount(h)' = CB_ShareCount(h)
                /\ ~cbLast'.deleted
      /\ \A h \in Handles :
           DCB_Valid(h) /\ DCB_Assign(h, h)
             => /\ DCB_Valid(h)'
                /\ dcbImpl'[DCB_Payload(h)]
                /\ dcbCount'[DCB_Counter(h)].alloc
                /\ DCB_ShareCount(h)' = DCB_ShareCount(h)
                /\ ~dcbLast'.deleted /\ ~dcbLast'.deletedCount ]_vars

(***************************************************************************)
(* C5: assigning to h2 from a different handle h1 of the same group does   *)
(* not touch the ShareCount at any intermediate step, deallocates nothing  *)
(* and leaves every handle's references as they were.                      *)
(***************************************************************************)
C5_AliasingAssignmentNoOp ==
  [][ /\ \A h, o \in Handles :
           h # o /\ CB_Valid(h) /\ CB_Valid(o) /\ CB_SameGroup(h, o) /\ CB_Assign(h, o)
             => /\ cbLast'.rcWrites = 0
                /\ ~cbLast'.deleted
                /\ cbRep' = cbRep /\ cbHeap' = cbHeap
      /\ \A h, o \in Handles :
           h # o /\ DCB_Valid(h) /\ DCB_Valid(o) /\ DCB_SameGroup(h, o) /\ DCB_Assign(h, o)
             => /\ dcbLast'.rcWrites = 0
                /\ ~dcbLast'.deleted /\ ~dcbLast'.deletedCount
                /\ dcbRep' = dcbRep /\ dcbImpl' = dcbImpl /\ dcbCount' = dcbCount ]_vars

(***************************************************************************)
(* C6: when a handle h of group G_old is assigned from a handle o of a     *)
(* different group G_new, h references G_new afterwards, G_new's           *)
(* ShareCount is exactly 1 higher, G_old's is exactly 1 lower, and G_old's *)
(* Payload (and detached counter) is deallocated iff its count reached 0.  *)
(***************************************************************************)
C6_AssignBetweenGroups ==
  [][ /\ \A h, o \in Handles :
           CB_Valid(h) /\ CB_Valid(o) /\ ~CB_SameGroup(h, o) /\ CB_Assign(h, o)
             => LET old == CB_Group(h)
                    new == CB_Group(o)
                    n   == cbHeap[old].reference_count
                IN  /\ cbRep'[h] = [live |-> TRUE, implementation |-> Ptr(new)]
                    /\ cbHeap'[new].alloc
                    /\ cbHeap'[new].reference_count = cbHeap[new].reference_count + 1
                    /\ n >= 1
                    /\ cbHeap'[old].alloc <=> n > 1
                    /\ cbHeap'[old].alloc => cbHeap'[old].reference_count = n - 1
                    /\ cbLast'.deleted <=> n = 1
                    /\ ~cbLast'.dbl
      /\ \A h, o \in Handles :
           DCB_Valid(h) /\ DCB_Valid(o) /\ ~DCB_SameGroup(h, o) /\ DCB_Assign(h, o)
             => LET oldP == DCB_Payload(h)
                    oldC == DCB_Counter(h)
                    newP == DCB_Payload(o)
                    newC == DCB_Counter(o)
                    n    == dcbCount[oldC].value
                IN  /\ dcbRep'[h] = [live |-> TRUE, implementation |-> Ptr(newP),
                                     reference_count |-> Ptr(newC)]
                    /\ dcbImpl'[newP] /\ dcbCount'[newC].alloc
                    /\ dcbCount'[newC].value = dcbCount[newC].value + 1
                    /\ n >= 1
                    /\ dcbImpl'[oldP] <=> n > 1
                    /\ dcbCount'[oldC].alloc <=> n > 1
                    /\ dcbCount'[oldC].alloc => dcbCount'[oldC].value = n - 1
                    /\ dcbLast'.deleted <=> n = 1
                    /\ dcbLast'.deletedCount <=> n = 1
                    /\ ~dcbLast'.dbl ]_vars

\* an assignment has moved the last owner of a group to another group,
\* which now has two or more owners
C6_Witness ==
  /\ dcbLast.op = "assign" /\ ~dcbLast.uaf /\ ~dcbLast.dbl
  /\ dcbLast.deleted /\ dcbLast.deletedCount
  /\ \E h \in Handles : DCB_Valid(h) /\ DCB_ShareCount(h) >= 2

(***************************************************************************)
(* C7: after every operation every group still allocated is referenced by  *)
(* at least one live handle; once every handle has been destroyed every    *)
(* group ever created has been deallocated exactly once.                   *)
(***************************************************************************)
C7_NoLeak ==
  /\ \A a \in Addr : cbHeap[a].alloc => \E h \in Handles : CB_Valid(h) /\ CB_Group(h) = a
  /\ \A a \in Addr : dcbImpl[a] => \E h \in Handles : DCB_Valid(h) /\ DCB_Payload(h) = a
  /\ \A c \in Addr : dcbCount[c].alloc => \E h \in Handles : DCB_Valid(h) /\ DCB_Counter(h) = c
  /\ CB_Live = {} => (\A a \in Addr : ~cbHeap[a].alloc) /\ ~cbLast.dbl
  /\ DCB_Live = {} => (\A a \in Addr : ~dcbImpl[a] /\ ~dcbCount[a].alloc) /\ ~dcbLast.dbl

C9_ConstructFresh ==
  [][ /\ \A h \in Handles, a \in Addr :
           CB_Construct(h, a)
             => /\ ~cbHeap[a].alloc
                /\ cbRep'[h] = [live |-> TRUE, implementation |-> Ptr(a)]
                /\ cbHeap'[a] = [alloc |-> TRUE, reference_count |-> 1]
                /\ \A k \in Handles \ {h} : CB_Valid(k)' => CB_Group(k)' # a
      /\ \A h \in Handles, a, c \in Addr :
           DCB_Construct(h, a, c)
             => /\ ~dcbImpl[a] /\ ~dcbCount[c].alloc
                /\ dcbRep'[h] = [live |-> TRUE, implementation |-> Ptr(a),
                                 reference_count |-> Ptr(c)]
                /\ dcbImpl'[a]
                /\ dcbCount'[c] = [alloc |-> TRUE, value |-> 1]
                /\ \A k \in Handles \ {h} :
                      DCB_Valid(k)' => DCB_Payload(k)' # a /\ DCB_Counter(k)' # c
      /\ \A a \in Addr : cbHeap'[a].alloc => cbHeap'[a].reference_count >= 1
      /\ \A c \in Addr : dcbCount'[c].alloc => dcbCount'[c].value >= 1 ]_vars

\* a fresh handle has just been constructed beside a shared group
C9_Witness ==
  /\ cbLast.op = "construct"
  /\ \E h, k \in Handles : /\ CB_Valid(h) /\ CB_Valid(k) /\ ~CB_SameGroup(h, k)
                           /\ CB_ShareCount(h) = 1 /\ CB_ShareCount(k) = 2

C11_LockStepLifetime ==
  /\ \A h \in DCB_Live :
        LET p == dcbRep[h].implementation
            q == dcbRep[h].reference_count
        IN  (p.addr # 0 /\ ~p.dangling /\ dcbImpl[p.addr])
              <=> (q.addr # 0 /\ ~q.dangling /\ dcbCount[q.addr].alloc)
  /\ dcbLast.deleted <=> dcbLast.deletedCount

(***************************************************************************)
(* C12: ExecuteBehaviour on a Representation changes no reference count,   *)
(* no Representation's pointers and no heap object's allocation; it writes *)
(* no count and deletes nothing.                                           *)
(***************************************************************************)
C12_InvokeReadOnly ==
  [][ /\ \A h \in Handles :
           CB_ExecuteBehaviour(h)
             => /\ cbRep' = cbRep /\ cbHeap' = cbHeap
                /\ cbLast'.rcWrites = 0
                /\ ~cbLast'.deleted /\ ~cbLast'.dbl
      /\ \A h \in Handles :
           DCB_ExecuteBehaviour(h)
             => /\ dcbRep' = dcbRep /\ dcbImpl' = dcbImpl /\ dcbCount' = dcbCount
                /\ dcbLast'.rcWrites = 0
                /\ ~dcbLast'.deleted /\ ~dcbLast'.deletedCount /\ ~dcbLast'.dbl ]_vars

\* the behaviour of a group shared by two or more Representations has just
\* been executed
C12_Witness ==
  /\ dcbLast.op = "invoke" /\ ~dcbLast.uaf
  /\ \E h \in Handles : DCB_Valid(h) /\ DCB_ShareCount(h) >= 2

(***************************************************************************)
(* C17: in the detached variant, when DecrementReferenceCount of the sole  *)
(* owner of a group returns, having deallocated the group, both the        *)
(* implementation pointer and the reference_count pointer of that          *)
(* Representation are null.                                                *)
(***************************************************************************)
C17_BothReferencesNull ==
  \A h \in Handles :
     DCB_Valid(h) /\ DCB_ShareCount(h) = 1
       => LET s1 == DCB_DecrementReferenceCount(DCB_State, h, FALSE, FALSE, FALSE)
          IN  /\ ~s1.impl[DCB_Payload(h)]
              /\ ~s1.count[DCB_Counter(h)].alloc
              /\ s1.rep[h].implementation = NullPtr
              /\ s1.rep[h].reference_count = NullPtr

(***************************************************************************)
(* C18: in the embedded variant, when DecrementReferenceCount of the sole  *)
(* owner of a group returns, having deallocated the Implementation, the    *)
(* implementation pointer of that Representation is null.                  *)
(***************************************************************************)
C18_ReferenceNull ==
  \A h \in Handles :
     CB_Valid(h) /\ CB_ShareCount(h) = 1
       => LET s1 == CB_DecrementReferenceCount(CB_State, h, FALSE, FALSE)
          IN  /\ ~s1.heap[CB_Group(h)].alloc
              /\ s1.rep[h].implementation = NullPtr

\* k exists and holds the same addresses before and after the step
CB_SameReferences(k) ==
  /\ cbRep'[k].live = cbRep[k].live
  /\ cbRep'[k].implementation.addr = cbRep[k].implementation.addr

DCB_SameReferences(k) ==
  /\ dcbRep'[k].live = dcbRep[k].live
  /\ dcbRep'[k].implementation.addr = dcbRep[k].implementation.addr
  /\ dcbRep'[k].reference_count.addr = dcbRep[k].reference_count.addr

\* the step changes no Representation but h and no heap object outside the
\* addresses in touched
CB_Frame(h, touched) ==
  /\ \A k \in Handles \ {h} : CB_SameReferences(k)
  /\ \A a \in Addr \ touched : cbHeap'[a] = cbHeap[a]

DCB_Frame(h, touchedImpl, touchedCount) ==
  /\ \A k \in Handles \ {h} : DCB_SameReferences(k)
  /\ \A a \in Addr \ touchedImpl : dcbImpl'[a] = dcbImpl[a]
  /\ \A c \in Addr \ touchedCount : dcbCount'[c] = dcbCount[c]

C13_ScenarioC ==
  script = "ScenarioC" =>
    /\ ~Last.uaf /\ ~Last.dbl
    /\ Deallocated <=> pc \in {3, 5}
    /\ Last.deleted <=> Last.deletedCount
    /\ pc = 2 => /\ Valid(1) /\ Valid(2) /\ ~SameGroup(1, 2)
                 /\ ShareCount(1) = 1 /\ ShareCount(2) = 1
                 /\ Payloads = 2 /\ Counters = 2
    /\ pc = 3 => /\ Valid(1) /\ Valid(2) /\ SameGroup(1, 2)
                 /\ ShareCount(2) = 2
                 /\ Payloads = 1 /\ Counters = 1
    /\ pc = 4 => /\ Live = {1} /\ Valid(1) /\ ShareCount(1) = 1
                 /\ Payloads = 1 /\ Counters = 1
    /\ pc = 5 => /\ Live = {}
                 /\ Payloads = 0 /\ Counters = 0

\* Scenario C has run to its end
C13_Witness ==
  /\ script = "ScenarioC" /\ pc = Len(ScenarioC)
  /\ Last.op = "destroy" /\ Deallocated

(***************************************************************************)
(* C14: Scenario B, detached variant.  With A fresh, B a copy of A and C   *)
(* fresh, B = C lowers the count of A's group to 1 and raises the count of *)
(* C's group to 2 and deallocates nothing; destroying A then deallocates   *)
(* the LibraryObject and the counter of A's group, once; B and C still     *)
(* reference an allocated group and can execute its behaviour.             *)
(***************************************************************************)
C14_ScenarioB ==
  script = "ScenarioB" /\ variant = "DCB" =>
    /\ ~dcbLast.uaf /\ ~dcbLast.dbl
    /\ dcbLast.deleted <=> pc = 5
    /\ dcbLast.deletedCount <=> pc = 5
    /\ pc = 3 => /\ DCB_Valid(1) /\ DCB_Valid(2) /\ DCB_Valid(3)
                 /\ DCB_SameGroup(1, 2) /\ DCB_ShareCount(1) = 2
                 /\ ~DCB_SameGroup(1, 3) /\ DCB_ShareCount(3) = 1
    /\ pc = 4 => /\ DCB_Valid(1) /\ DCB_Valid(2) /\ DCB_Valid(3)
                 /\ ~DCB_SameGroup(1, 2) /\ DCB_ShareCount(1) = 1
                 /\ DCB_SameGroup(2, 3) /\ DCB_ShareCount(3) = 2
                 /\ Payloads = 2 /\ Counters = 2
    /\ pc >= 5 => /\ DCB_Live = {2, 3}
                  /\ DCB_Valid(2) /\ DCB_Valid(3)
                  /\ DCB_SameGroup(2, 3) /\ DCB_ShareCount(3) = 2
                  /\ dcbImpl[DCB_Payload(3)] /\ dcbCount[DCB_Counter(3)].alloc
                  /\ Payloads = 1 /\ Counters = 1
    /\ pc >= 6 => dcbLast.op = "invoke"

\* Scenario B has run to its end in the detached variant
C14_Witness ==
  /\ script = "ScenarioB" /\ variant = "DCB" /\ pc = Len(ScenarioB)
  /\ dcbLast.op = "invoke" /\ ~dcbLast.uaf

(***************************************************************************)
(* C15: main of both programs.  After third = second all three objects     *)
(* reference first's group with count 3 and third's original group has     *)
(* been deallocated, once; every ExecuteBehaviour runs on an allocated     *)
(* payload; the destructors at return, in reverse order of construction,   *)
(* lower the count to 2, 1, 0 and the shared group is deallocated once, by *)
(* the last of them.                                                       *)
(***************************************************************************)
C15_DemoSequence ==
  script = "main" =>
    /\ ~Last.uaf /\ ~Last.dbl
    /\ Deallocated <=> pc \in {6, 10}
    /\ Last.deleted <=> Last.deletedCount
    /\ pc \in {2, 4, 7} => Last.op = "invoke" /\ Valid(main[pc].h)
    /\ pc \in {1, 2} => Live = {1} /\ Valid(1) /\ ShareCount(1) = 1
    /\ pc \in {3, 4} => /\ Live = {1, 2} /\ Valid(1) /\ Valid(2)
                        /\ SameGroup(1, 2) /\ ShareCount(1) = 2
    /\ pc = 5 => /\ Valid(3) /\ ~SameGroup(3, 1) /\ ShareCount(3) = 1
                 /\ Payloads = 2 /\ Counters = 2
    /\ pc \in {6, 7} => /\ Live = {1, 2, 3}
                        /\ Valid(1) /\ Valid(2) /\ Valid(3)
                        /\ SameGroup(1, 2) /\ SameGroup(2, 3)
                        /\ ShareCount(1) = 3
                        /\ Payloads = 1 /\ Counters = 1
    /\ pc = 8 => /\ Live = {1, 2} /\ Valid(1) /\ Valid(2)
                 /\ ShareCount(1) = 2 /\ Payloads = 1 /\ Counters = 1
    /\ pc = 9 => /\ Live = {1} /\ Valid(1)
                 /\ ShareCount(1) = 1 /\ Payloads = 1 /\ Counters = 1
    /\ pc = 10 => Live = {} /\ Payloads = 0 /\ Counters = 0

\* main has returned
C15_Witness ==
  /\ script = "main" /\ pc = Len(main)
  /\ Live = {} /\ Deallocated

(***************************************************************************)
(* C19: when the same sequence of constructions, copies, assignments       *)
(* between different groups and destructions is applied to the embedded    *)
(* and to the detached Representation, then after every operation the same *)
(* objects exist and reference an allocated group, the same objects share  *)
(* a group, every object sees the same count, the same number of groups is *)
(* allocated and the last operation deallocated a group in both or in      *)
(* neither.                                                                *)
(***************************************************************************)
C19_VariantsEquivalent ==
  variant = "both" =>
    /\ CB_Live = DCB_Live
    /\ \A h \in CB_Live : CB_Valid(h) /\ DCB_Valid(h)
    /\ \A h, o \in CB_Live : CB_SameGroup(h, o) <=> DCB_SameGroup(h, o)
    /\ \A h \in CB_Live : CB_ShareCount(h) = DCB_ShareCount(h)
    /\ \A h \in CB_Live :
          /\ cbHeap[CB_Group(h)].alloc
          /\ dcbImpl[DCB_Payload(h)] /\ dcbCount[DCB_Counter(h)].alloc
    /\ Cardinality({a \in Addr : cbHeap[a].alloc})
         = Cardinality({a \in Addr : dcbImpl[a]})
    /\ Cardinality({a \in Addr : cbHeap[a].alloc})
         = Cardinality({c \in Addr : dcbCount[c].alloc})
    /\ cbLast.op = dcbLast.op
    /\ cbLast.deleted = dcbLast.deleted
    /\ cbLast.deleted = dcbLast.deletedCount
    /\ cbLast.uaf = dcbLast.uaf /\ cbLast.dbl = dcbLast.dbl
    /\ cbAborted = dcbAborted

\* side by side, an assignment has moved the last owner of one group into a
\* group that now has two owners, in both programs
C19_Witness ==
  /\ variant = "both"
  /\ cbLast.op = "assign" /\ cbLast.deleted
  /\ dcbLast.op = "assign" /\ dcbLast.deleted /\ dcbLast.deletedCount
  /\ \E h, o \in Handles : /\ h # o
                           /\ CB_Valid(h) /\ CB_Valid(o) /\ CB_SameGroup(h, o)
                           /\ DCB_Valid(h) /\ DCB_Valid(o) /\ DCB_SameGroup(h, o)
                           /\ CB_ShareCount(h) = 2 /\ DCB_ShareCount(h) = 2

\* every thread has left its member function
AllDone == \A t \in Threads : thr[t].step = "done"

\* the count of a group differs from the number of objects that reference it
CountWrong ==
  \E h \in Live :
     /\ Valid(h)
     /\ ShareCount(h) # Cardinality({k \in Live : Valid(k) /\ SameGroup(k, h)})

\* a heap object is allocated and no object references it
Leaked ==
  IF variant = "CB"
  THEN \E a \in Addr : cbHeap[a].alloc /\ \A h \in Handles : ~(CB_Valid(h) /\ CB_Group(h) = a)
  ELSE \/ \E a \in Addr : dcbImpl[a] /\ \A h \in Handles : ~(DCB_Valid(h) /\ DCB_Payload(h) = a)
       \/ \E c \in Addr : dcbCount[c].alloc /\ \A h \in Handles : ~(DCB_Valid(h) /\ DCB_Counter(h) = c)

\* the states the claim calls bad
Bad == Last.uaf \/ Last.dbl \/ CountWrong \/ Leaked

(***************************************************************************)
(* C16: two threads that each run a copy construction, an assignment or a  *)
(* destruction on objects of one group, without synchronisation, can reach *)
(* a bad state: whenever a thread has stored a count computed from a value *)
(* that another thread had changed in between, the run ends with a count   *)
(* that differs from the number of objects of its group, a group that is   *)
(* never deallocated, a double deallocation or an access to a deallocated  *)
(* group.                                                                  *)
(***************************************************************************)
C16_LostUpdateEndsBad == AllDone /\ lost => Bad

\* both threads have finished, one of them on an outdated count, and a group
\* is left allocated that no object references
C16_Witness == AllDone /\ lost /\ Leaked /\ ~Last.uaf /\ ~Last.dbl

====
